---------------------------- MODULE Spec2Model ----------------------------
(* Study Organizer (src/app.py): the session state of the Streamlit script, *)
(* the page handlers that mutate it, the deadline scan that ends every      *)
(* script run, the start-time parser and the calendar projection.           *)
EXTENDS Integers, Sequences, FiniteSets, TLC

VARIABLES
    tasks,          \* st.session_state.tasks: list of task dicts
    email_config,   \* st.session_state.email_config
    schedule,       \* st.session_state.schedule: weekday -> list of class dicts
    today,          \* datetime.date.today(), as a proleptic ordinal
    pc,             \* position in the script run: "page" (waiting for / running
                    \* the page body) or "notify" (about to run lines 414-416)
    notifs,         \* the list check_and_notify_tasks last returned
    calls,          \* history: task identity -> the results of the send_email calls made for it
    smtp,           \* history: task identity -> number of times the SMTP server was contacted for it
    everDone,       \* history: identities of the tasks whose done flag has been true
    nextId,         \* identity of the next task dict to be created
    cal,            \* Calendar page: the (year, month) selected and events_by_date
    time_str,       \* Weekly Table / parser: the time string under consideration
    parsed,         \* result of parse_start_time(time_str), <<>> before the call
    sorted_times    \* Weekly Table: sorted_times

vars == <<tasks, email_config, schedule, today, pc, notifs, calls, smtp,
          everDone, nextId, cal, time_str, parsed, sorted_times>>

-----------------------------------------------------------------------------
(* Bounds *)

\* number of task dicts created in a behaviour
MaxAdds == 2
\* number of days the clock advances
MaxDays == 1

-----------------------------------------------------------------------------
(* Dates: datetime.date as its proleptic Gregorian ordinal *)

IsLeap(y) == (y % 4 = 0) /\ ((y % 100 # 0) \/ (y % 400 = 0))

DaysInMonth(y, m) ==
    IF m = 2 THEN (IF IsLeap(y) THEN 29 ELSE 28)
    ELSE IF m \in {4, 6, 9, 11} THEN 30 ELSE 31

RECURSIVE DaysBeforeMonth(_, _)
DaysBeforeMonth(y, m) ==
    IF m = 1 THEN 0 ELSE DaysBeforeMonth(y, m - 1) + DaysInMonth(y, m - 1)

DaysBeforeYear(y) ==
    LET p == y - 1 IN p * 365 + (p \div 4) - (p \div 100) + (p \div 400)

\* datetime.date(y, m, d)
Date(y, m, d) == DaysBeforeYear(y) + DaysBeforeMonth(y, m) + d

\* the date the session starts on
Today0 == Date(2024, 1, 30)

\* the deadlines the date_input of the add-task form is given
DeadlineChoices == {Today0, Today0 + 3}

\* the title typed for the task dict with identity id
TitleInput(id) == IF id % 2 = 1 THEN "essay" ELSE "quiz"

TaskIds == 1..MaxAdds

-----------------------------------------------------------------------------
(* send_email, lines 52-72 *)

Configured(cfg) == cfg.sender # "" /\ cfg.password # "" /\ cfg.to # ""

\* send_email without the guard of lines 57-58: the login is attempted with
\* whatever credentials there are
M_send_email_NoConfigGuard(cfg, server_ok) ==
    IF Configured(cfg) /\ server_ok
    THEN [ok |-> TRUE, msg |-> "Email sent.", contacted |-> TRUE]
    ELSE [ok |-> FALSE, msg |-> "Email error", contacted |-> TRUE]

\* server_ok: whether the SMTP exchange of lines 66-69 goes through
send_email(cfg, server_ok) ==
    IF ~Configured(cfg)
    THEN [ok |-> FALSE, msg |-> "Email not configured.", contacted |-> FALSE]
    ELSE IF server_ok
    THEN [ok |-> TRUE, msg |-> "Email sent.", contacted |-> TRUE]
    ELSE [ok |-> FALSE, msg |-> "Email error", contacted |-> TRUE]

-----------------------------------------------------------------------------
(* check_and_notify_tasks, lines 75-98 *)

\* the horizon test with < in place of <=
M_WithinHorizon_Strict(delta) == delta < 2

\* the horizon test off by one day
M_WithinHorizon_ThreeDays(delta) == delta <= 3

\* line 86
WithinHorizon(delta) == delta <= 2

\* the email sent whether or not the task was notified before
M_NeedsEmail_Always(t) == TRUE

\* line 88
NeedsEmail(t) == ~t.notified

\* line 94 left out
M_MarkNotified_Forgets(t) == t

\* line 94
MarkNotified(t) == [t EXCEPT !.notified = TRUE]

\* the done test of lines 83-84 left out
M_Skipped_Never(t) == FALSE

\* line 83
Skipped(t) == t.done

\* line 94 moved under a successful send: a failed attempt is retried
M_NotifyTask_RetryOnFailure(t, now, cfg, server_ok) ==
    IF Skipped(t) THEN [task |-> t, out |-> <<>>, sent |-> <<>>]
    ELSE LET delta == t.deadline - now
             approach == [kind |-> "deadline", task |-> t.id, title |-> t.title,
                          delta |-> delta, deadline |-> t.deadline]
         IN IF ~WithinHorizon(delta) THEN [task |-> t, out |-> <<>>, sent |-> <<>>]
            ELSE IF ~NeedsEmail(t) THEN [task |-> t, out |-> <<approach>>, sent |-> <<>>]
            ELSE LET r == send_email(cfg, server_ok)
                 IN [task |-> IF r.ok THEN MarkNotified(t) ELSE t,
                     out  |-> IF r.ok THEN <<approach>>
                              ELSE <<approach, [kind |-> "email_failed", task |-> t.id,
                                                msg |-> r.msg]>>,
                     sent |-> <<r>>]

\* One iteration of the loop of line 82 on task t: the task afterwards, the
\* messages appended, and the send_email result when a call was made.
NotifyTask(t, now, cfg, server_ok) ==
    IF Skipped(t) THEN [task |-> t, out |-> <<>>, sent |-> <<>>]
    ELSE LET delta == t.deadline - now
             approach == [kind |-> "deadline", task |-> t.id, title |-> t.title,
                          delta |-> delta, deadline |-> t.deadline]
         IN IF ~WithinHorizon(delta) THEN [task |-> t, out |-> <<>>, sent |-> <<>>]
            ELSE IF ~NeedsEmail(t) THEN [task |-> t, out |-> <<approach>>, sent |-> <<>>]
            ELSE LET r == send_email(cfg, server_ok)
                 IN [task |-> MarkNotified(t),
                     out  |-> IF r.ok THEN <<approach>>
                              ELSE <<approach, [kind |-> "email_failed", task |-> t.id,
                                                msg |-> r.msg]>>,
                     sent |-> <<r>>]

\* The loop of lines 82-97 over ts[i..]; server[i] is the SMTP outcome for ts[i].
RECURSIVE ScanFrom(_, _, _, _, _)
ScanFrom(ts, i, now, cfg, server) ==
    IF i > Len(ts) THEN [tasks |-> <<>>, out |-> <<>>, sent |-> <<>>]
    ELSE LET r    == NotifyTask(ts[i], now, cfg, server[i])
             rest == ScanFrom(ts, i + 1, now, cfg, server)
         IN [tasks |-> <<r.task>> \o rest.tasks,
             out   |-> r.out \o rest.out,
             sent  |-> (IF r.sent = <<>> THEN <<>>
                        ELSE <<[id |-> ts[i].id, res |-> r.sent[1]]>>) \o rest.sent]

check_and_notify_tasks(ts, now, cfg, server) == ScanFrom(ts, 1, now, cfg, server)

RECURSIVE Record(_, _)
\* the history of send_email calls, extended by the calls of one scan
Record(h, sent) ==
    IF sent = <<>> THEN h
    ELSE Record([h EXCEPT ![sent[1].id] = Append(@, sent[1].res.msg)], Tail(sent))

RECURSIVE Contacts(_, _)
Contacts(h, sent) ==
    IF sent = <<>> THEN h
    ELSE Contacts([h EXCEPT ![sent[1].id] = @ + (IF sent[1].res.contacted THEN 1 ELSE 0)],
                  Tail(sent))

-----------------------------------------------------------------------------
(* Tasks & Deadlines page, lines 208-256 *)

\* line 235: list.sort(key=deadline), stable
RECURSIVE InsertByDeadline(_, _)
InsertByDeadline(sorted, t) ==
    IF sorted = <<>> THEN <<t>>
    ELSE IF sorted[Len(sorted)].deadline <= t.deadline THEN Append(sorted, t)
    ELSE Append(InsertByDeadline(SubSeq(sorted, 1, Len(sorted) - 1), t), sorted[Len(sorted)])

RECURSIVE SortByDeadline(_)
SortByDeadline(ts) ==
    IF ts = <<>> THEN <<>>
    ELSE InsertByDeadline(SortByDeadline(SubSeq(ts, 1, Len(ts) - 1)), ts[Len(ts)])

\* lines 220-225
NewTask(id, title, deadline) ==
    [id |-> id, title |-> title, deadline |-> deadline, done |-> FALSE, notified |-> FALSE]

RemoveAt(s, i) == SubSeq(s, 1, i - 1) \o SubSeq(s, i + 1, Len(s))


-----------------------------------------------------------------------------
(* parse_start_time, lines 38-49. A string is a sequence of characters.     *)

MaxLen == 5

\* "x" stands for any character that is neither a digit nor a separator
Chars == {"1", "2", "6", ":", ".", "x"}

DigitValue == [c \in {"0", "1", "2", "3", "4", "5", "6", "7", "8", "9"} |->
                 CASE c = "0" -> 0 [] c = "1" -> 1 [] c = "2" -> 2 [] c = "3" -> 3
                   [] c = "4" -> 4 [] c = "5" -> 5 [] c = "6" -> 6 [] c = "7" -> 7
                   [] c = "8" -> 8 [] c = "9" -> 9]

\* \d
IsDigit(c) == c \in DOMAIN DigitValue

\* [01]
IsHourTens(c) == c \in {"0", "1"}

\* the hour 2[0-9] accepted
M_IsHourUnitsAfter2_AnyDigit(c) == IsDigit(c)

\* [0-3]
IsHourUnitsAfter2(c) == c \in {"0", "1", "2", "3"}

\* [0-5]
IsMinuteTens(c) == c \in {"0", "1", "2", "3", "4", "5"}

\* [:\.]
IsSeparator(c) == c \in {":", "."}

\* int() of a matched group
ToInt(digits) ==
    IF Len(digits) = 1 THEN DigitValue[digits[1]]
    ELSE 10 * DigitValue[digits[1]] + DigitValue[digits[2]]

\* [:\.]([0-5]\d) at position q
TailMatches(s, q) ==
    /\ q + 2 <= Len(s)
    /\ IsSeparator(s[q])
    /\ IsMinuteTens(s[q + 1])
    /\ IsDigit(s[q + 2])

\* The lengths of group 1 the regex engine tries at position p, in order:
\* [01]\d, then \d alone (the optional [01] given back), then 2[0-3].
HourLengths(s, p) ==
    (IF p + 1 <= Len(s) /\ IsHourTens(s[p]) /\ IsDigit(s[p + 1]) THEN <<2>> ELSE <<>>)
    \o (IF IsDigit(s[p]) THEN <<1>> ELSE <<>>)
    \o (IF p + 1 <= Len(s) /\ s[p] = "2" /\ IsHourUnitsAfter2(s[p + 1]) THEN <<2>> ELSE <<>>)

\* the match of the whole pattern at position p: <<hour, minute>> or <<>>
MatchAt(s, p) ==
    LET ok == SelectSeq(HourLengths(s, p), LAMBDA n : TailMatches(s, p + n))
    IN IF ok = <<>> THEN <<>>
       ELSE LET n == ok[1]
            IN <<ToInt(SubSeq(s, p, p + n - 1)), ToInt(SubSeq(s, p + n + 1, p + n + 2))>>

\* re.search: the match at the leftmost position that has one
RECURSIVE Search(_, _)
Search(s, p) ==
    IF p > Len(s) THEN <<>>
    ELSE LET m == MatchAt(s, p)
         IN IF m # <<>> THEN m ELSE Search(s, p + 1)

Sentinel == <<99, 99>>

parse_start_time(s) ==
    IF s = <<>> THEN Sentinel
    ELSE LET m == Search(s, 1)
         IN IF m # <<>> THEN m ELSE Sentinel

\* tuple comparison of two (hour, minute) keys
KeyLess(a, b) == a[1] < b[1] \/ (a[1] = b[1] /\ a[2] < b[2])

\* line 132: sorted(times, key=parse_start_time) on the list `order`, stable
RECURSIVE SortedByStart(_)
SortedByStart(order) ==
    IF order = <<>> THEN <<>>
    ELSE LET x    == order[Len(order)]
             init == SortedByStart(SubSeq(order, 1, Len(order) - 1))
             keep == {i \in 1..Len(init) :
                        ~KeyLess(parse_start_time(x), parse_start_time(init[i]))}
             n    == IF keep = {} THEN 0 ELSE CHOOSE i \in keep : \A j \in keep : j <= i
         IN SubSeq(init, 1, n) \o <<x>> \o SubSeq(init, n + 1, Len(init))

-----------------------------------------------------------------------------
(* Session state after lines 15-32, before the first script run's page body *)

Weekdays == <<"Monday", "Tuesday", "Wednesday", "Thursday", "Friday", "Saturday", "Sunday">>

WeekdayNames == {Weekdays[i] : i \in 1..7}

NoCalendar == [year |-> 0, month |-> 0, events |-> <<>>]

InitSession ==
    /\ tasks = <<>>
    /\ email_config = [sender |-> "", password |-> "", to |-> ""]
    /\ schedule = [d \in WeekdayNames |-> <<>>]
    /\ today = Today0
    /\ pc = "page"
    /\ notifs = <<>>
    /\ calls = [i \in TaskIds |-> <<>>]
    /\ smtp = [i \in TaskIds |-> 0]
    /\ everDone = {}
    /\ nextId = 1
    /\ cal = NoCalendar
    /\ time_str = <<>>
    /\ parsed = <<>>
    /\ sorted_times = <<>>

Init == InitSession

-----------------------------------------------------------------------------
(* Script runs. A run executes the body of the selected page and then, at   *)
(* pc = "notify", lines 414-416. st.experimental_rerun() abandons the run   *)
(* and starts the next one, whose page body re-renders without a user       *)
(* event before the notifications are computed.                             *)

\* lines 212-227 (submit), then the rerun's line 235
AddTask(title, deadline) ==
    /\ pc = "page"
    /\ nextId <= MaxAdds
    /\ tasks' = SortByDeadline(Append(tasks, NewTask(nextId, title, deadline)))
    /\ nextId' = nextId + 1
    /\ pc' = "notify"
    /\ notifs' = <<>>
    /\ cal' = NoCalendar
    /\ UNCHANGED <<email_config, schedule, today, calls, smtp, everDone,
                   time_str, parsed, sorted_times>>

\* the done toggle also clearing the notified flag
M_SetDone_ResetsNotified(t, v) == [t EXCEPT !.done = v, !.notified = FALSE]

\* line 244
SetDone(t, v) == [t EXCEPT !.done = v]

\* lines 235, 242-245: the checkbox of row i is flipped
ToggleDone(i) ==
    /\ pc = "page"
    /\ i \in 1..Len(tasks)
    /\ LET ts == SortByDeadline(tasks)
       IN /\ tasks' = [ts EXCEPT ![i] = SetDone(ts[i], ~ts[i].done)]
          /\ everDone' = IF ~ts[i].done THEN everDone \cup {ts[i].id} ELSE everDone
    /\ pc' = "notify"
    /\ notifs' = <<>>
    /\ cal' = NoCalendar
    /\ UNCHANGED <<email_config, schedule, today, calls, smtp, nextId,
                   time_str, parsed, sorted_times>>

\* lines 231-256 with no widget changed
ViewTasks ==
    /\ pc = "page"
    /\ tasks' = SortByDeadline(tasks)
    /\ pc' = "notify"
    /\ notifs' = <<>>
    /\ cal' = NoCalendar
    /\ UNCHANGED <<email_config, schedule, today, calls, smtp, everDone,
                   nextId, time_str, parsed, sorted_times>>

\* lines 400-408: the three text inputs are written back on every run of the
\* page; the run was triggered by an edit of input f to value v
EmailSettings(f, v) ==
    /\ pc = "page"
    /\ email_config' = [email_config EXCEPT ![f] = v]
    /\ pc' = "notify"
    /\ notifs' = <<>>
    /\ cal' = NoCalendar
    /\ UNCHANGED <<tasks, schedule, today, calls, smtp, everDone, nextId,
                   time_str, parsed, sorted_times>>

\* lines 414-416
Notify ==
    /\ pc = "notify"
    /\ \E server \in [1..Len(tasks) -> BOOLEAN] :
         LET r == check_and_notify_tasks(tasks, today, email_config, server)
         IN /\ tasks' = r.tasks
            /\ notifs' = r.out
            /\ calls' = Record(calls, r.sent)
            /\ smtp' = Contacts(smtp, r.sent)
    /\ pc' = "page"
    /\ UNCHANGED <<email_config, schedule, today, everDone, nextId,
                   cal, time_str, parsed, sorted_times>>

\* the date changes between two script runs
AdvanceDay ==
    /\ pc = "page"
    /\ today < Today0 + MaxDays
    /\ today' = today + 1
    /\ UNCHANGED <<tasks, email_config, schedule, pc, notifs, calls, smtp, everDone,
                   nextId, cal, time_str, parsed, sorted_times>>

EmailFields == {"sender", "password", "to"}

Next ==
    \/ \E deadline \in DeadlineChoices : AddTask(TitleInput(nextId), deadline)
    \/ \E i \in 1..Len(tasks) : ToggleDone(i)
    \/ ViewTasks
    \/ \E f \in EmailFields, v \in {"", "x"} : EmailSettings(f, v)
    \/ Notify
    \/ AdvanceDay

Spec == Init /\ [][Next]_vars

-----------------------------------------------------------------------------
(* The parser applied to the text of the "Time" input, and the Weekly Table *)
(* ordering (lines 126-132) of that text beside another time in the week.   *)

Strings == UNION {[1..n -> Chars] : n \in 0..MaxLen}

\* the text typed: any short string, or one followed by the end of a range
TimeInputs ==
    Strings \cup {s \o <<"x", "2", "1", ":", "1", "2">> : s \in {t \in Strings : Len(t) < MaxLen}}

\* time strings of the other classes of the week ("x" is the placeholder
\* line 175 stores for a blank time)
OtherTimes == {<<"x">>, <<"1", "2", ":", "2", "6">>}

InitParse ==
    /\ tasks = <<>>
    /\ email_config = [sender |-> "", password |-> "", to |-> ""]
    /\ schedule = [d \in WeekdayNames |-> <<>>]
    /\ today = Today0
    /\ pc = "page"
    /\ notifs = <<>>
    /\ calls = [i \in TaskIds |-> <<>>]
    /\ smtp = [i \in TaskIds |-> 0]
    /\ everDone = {}
    /\ nextId = 1
    /\ cal = NoCalendar
    /\ time_str \in TimeInputs
    /\ parsed = <<>>
    /\ sorted_times = <<>>

\* lines 38-49
ParseStartTime ==
    /\ parsed = <<>>
    /\ parsed' = parse_start_time(time_str)
    /\ UNCHANGED <<tasks, email_config, schedule, today, pc, notifs, calls, smtp,
                   everDone, nextId, cal, time_str, sorted_times>>

\* lines 126-132 with times = {time_str, other}, once the Time input has been
\* parsed; a set is iterated in either order
WeeklyTable(other) ==
    /\ parsed # <<>>
    /\ sorted_times = <<>>
    /\ \E order \in {<<time_str, other>>, <<other, time_str>>} :
         sorted_times' = SortedByStart(IF time_str = other THEN <<other>> ELSE order)
    /\ UNCHANGED <<tasks, email_config, schedule, today, pc, notifs, calls, smtp,
                   everDone, nextId, cal, time_str, parsed>>

NextParse ==
    \/ ParseStartTime
    \/ \E other \in OtherTimes : WeeklyTable(other)

SpecParse == InitParse /\ [][NextParse]_vars

-----------------------------------------------------------------------------
(* Manage Classes page, lines 158-202 *)

\* number of classes plus tasks held by the session
MaxRecords == 3

\* lines 174-175: the placeholder stored for a blank room or time (an em
\* dash in the source)
Placeholder == "--"

OrPlaceholder(text) == IF text = "" THEN Placeholder ELSE text

\* the stripped texts of the three inputs of the add-class form
ClassInputs ==
    { [course |-> "Math", room |-> "C212", time |-> "07:50-09:30"],
      [course |-> "Art", room |-> "", time |-> ""],
      [course |-> "", room |-> "C212", time |-> "10:00"] }

\* the days selected in the add-class form
DayChoices == {"Monday", "Friday", "Sunday"}

ClassCount == Len(schedule["Monday"]) + Len(schedule["Tuesday"]) + Len(schedule["Wednesday"])
              + Len(schedule["Thursday"]) + Len(schedule["Friday"])
              + Len(schedule["Saturday"]) + Len(schedule["Sunday"])

\* lines 168-179: an empty course name is refused and the run goes on
AddClass(day, in) ==
    /\ pc = "page"
    /\ schedule' = IF in.course = "" THEN schedule
                   ELSE [schedule EXCEPT ![day] =
                           Append(@, [course |-> in.course,
                                      room |-> OrPlaceholder(in.room),
                                      time |-> OrPlaceholder(in.time)])]
    /\ pc' = "notify"
    /\ notifs' = <<>>
    /\ cal' = NoCalendar
    /\ UNCHANGED <<tasks, email_config, today, calls, smtp, everDone, nextId,
                   time_str, parsed, sorted_times>>

\* lines 193-200
DeleteClass(day, idx) ==
    /\ pc = "page"
    /\ idx \in 1..Len(schedule[day])
    /\ schedule' = [schedule EXCEPT ![day] = RemoveAt(@, idx)]
    /\ pc' = "notify"
    /\ notifs' = <<>>
    /\ cal' = NoCalendar
    /\ UNCHANGED <<tasks, email_config, today, calls, smtp, everDone, nextId,
                   time_str, parsed, sorted_times>>

-----------------------------------------------------------------------------
(* Calendar page, lines 262-301 and 353-360 *)

\* dt.weekday(): Monday = 0
Weekday(dt) == (dt + 6) % 7

\* strftime("%A") read with Sunday as day 0
M_WeekdayName_SundayFirst(dt) == Weekdays[(dt % 7) + 1]

\* line 290: dt.strftime("%A")
WeekdayName(dt) == Weekdays[Weekday(dt) + 1]

\* line 278: calendar.Calendar(firstweekday=0).monthdayscalendar(year, month),
\* the weeks concatenated: leading zeros up to the weekday of the 1st, the
\* days, trailing zeros up to a whole week
MonthCells(y, m) ==
    LET lead == Weekday(Date(y, m, 1))
        n    == DaysInMonth(y, m)
        size == ((lead + n + 6) \div 7) * 7
    IN [k \in 1..size |-> IF k > lead /\ k <= lead + n THEN k - lead ELSE 0]

month_days(y, m) ==
    LET cells == MonthCells(y, m)
    IN [w \in 1..(Len(cells) \div 7) |-> SubSeq(cells, 7 * (w - 1) + 1, 7 * w)]

\* line 294
ClassText(c) == c.time \o " " \o c.course \o " (" \o c.room \o ")"

\* line 301
TaskText(t) == "Deadline: " \o t.title

\* lines 291-295 for one date
ClassEvents(sched, dt) ==
    LET classes == sched[WeekdayName(dt)]
    IN [k \in 1..Len(classes) |-> [kind |-> "class", text |-> ClassText(classes[k])]]

\* lines 298-301: the loop over tasks from index i on
RECURSIVE MapTasks(_, _, _)
MapTasks(events, ts, i) ==
    IF i > Len(ts) THEN events
    ELSE LET dt == ts[i].deadline
         IN MapTasks(IF dt \in DOMAIN events
                     THEN [events EXCEPT ![dt] =
                             Append(@, [kind |-> "task", text |-> TaskText(ts[i])])]
                     ELSE events,
                     ts, i + 1)

\* lines 281-301
events_by_date(y, m, sched, ts) ==
    LET grid  == month_days(y, m)
        days  == {grid[w][k] : w \in DOMAIN grid, k \in 1..7} \ {0}
        first == Date(y, m, 1)
        dates == {first + (d - 1) : d \in days}
    IN MapTasks([dt \in dates |-> ClassEvents(sched, dt)], ts, 1)

\* lines 353-360: the events shown in each cell of the grid
Cells(y, m, grid, events) ==
    [w \in DOMAIN grid |->
       [k \in 1..7 |-> IF grid[w][k] = 0 THEN <<>> ELSE events[Date(y, m, grid[w][k])]]]

\* the (year, month) pairs selected, among the years line 268 offers
MonthChoices == {<<2023, 12>>, <<2024, 1>>, <<2024, 2>>, <<2025, 2>>}

Calendar(y, m) ==
    /\ pc = "page"
    /\ cal' = [year |-> y, month |-> m, grid |-> month_days(y, m),
               events |-> events_by_date(y, m, schedule, tasks)]
    /\ pc' = "notify"
    /\ notifs' = <<>>
    /\ UNCHANGED <<tasks, email_config, schedule, today, calls, smtp, everDone,
                   nextId, time_str, parsed, sorted_times>>

RecordCount == ClassCount + Len(tasks)

NextCal ==
    \/ \E day \in DayChoices, in \in ClassInputs :
         /\ RecordCount < MaxRecords
         /\ AddClass(day, in)
    \/ \E day \in WeekdayNames, idx \in 1..MaxRecords : DeleteClass(day, idx)
    \/ \E deadline \in DeadlineChoices :
         /\ RecordCount < MaxRecords
         /\ AddTask(TitleInput(nextId), deadline)
    \/ \E i \in 1..Len(tasks) : ToggleDone(i)
    \/ \E ym \in MonthChoices : Calendar(ym[1], ym[2])
    \/ Notify

SpecCal == InitSession /\ [][NextCal]_vars

-----------------------------------------------------------------------------
(* Vocabulary of the properties *)

\* the step is a run of check_and_notify_tasks (lines 414-416)
ScanStep == pc = "notify" /\ pc' = "page"

Delta(t) == t.deadline - today

\* the messages of the list ns that were appended while evaluating task id
MessagesOf(ns, id) == {j \in 1..Len(ns) : ns[j].task = id}

ApproachOf(ns, id) == {j \in MessagesOf(ns, id) : ns[j].kind = "deadline"}

FailureOf(ns, id) == {j \in MessagesOf(ns, id) : ns[j].kind = "email_failed"}

\* the number of send_email calls the step makes for task id
CallsMade(id) == Len(calls'[id]) - Len(calls[id])

TaskWithId(ts, id) == {i \in 1..Len(ts) : ts[i].id = id}

-----------------------------------------------------------------------------
C2_NotifiedLifecycle ==
    [][ /\ nextId' # nextId =>
             \E i \in 1..Len(tasks') : tasks'[i].id = nextId /\ ~tasks'[i].notified
        /\ ScanStep =>
             /\ Len(tasks') = Len(tasks)
             /\ \A i \in 1..Len(tasks) :
                  /\ tasks'[i].id = tasks[i].id
                  /\ tasks'[i].notified <=>
                       (tasks[i].notified \/ (~tasks[i].done /\ Delta(tasks[i]) <= 2))
        /\ \A i \in 1..Len(tasks) : tasks[i].notified =>
             \A j \in TaskWithId(tasks', tasks[i].id) : tasks'[j].notified ]_vars

\* a task created outside the horizon was scanned unnotified, entered the
\* horizon a day later, was notified, and kept the flag through a done toggle
C2_Witness ==
    \E i \in 1..Len(tasks) :
        /\ tasks[i].deadline = Today0 + 3
        /\ tasks[i].notified
        /\ tasks[i].done
        /\ Len(calls[tasks[i].id]) = 1

(* C3 as stated: once a task's done flag has been true, no later scan       *)
(* produces a message or an email attempt for it.                           *)
C3_DoneIsTerminal ==
    [][ ScanStep =>
          \A i \in 1..Len(tasks) : tasks[i].id \in everDone =>
              /\ MessagesOf(notifs', tasks[i].id) = {}
              /\ CallsMade(tasks[i].id) = 0 ]_vars

(* C3 amended: a task whose done flag has been true is exempt exactly while *)
(* done is true; once toggled back to not-done a scan treats it as any      *)
(* other task: the approaching-deadline message iff deadline - today <= 2,  *)
(* and an email attempt iff moreover notified is false.                     *)
C3_DoneExemptsWhileSet ==
    [][ ScanStep =>
          \A i \in 1..Len(tasks) : tasks[i].id \in everDone =>
              /\ tasks[i].done =>
                   /\ MessagesOf(notifs', tasks[i].id) = {}
                   /\ CallsMade(tasks[i].id) = 0
              /\ ~tasks[i].done =>
                   /\ (ApproachOf(notifs', tasks[i].id) # {}) <=> (Delta(tasks[i]) <= 2)
                   /\ (CallsMade(tasks[i].id) = 1) <=>
                        (Delta(tasks[i]) <= 2 /\ ~tasks[i].notified)
                   /\ CallsMade(tasks[i].id) \in {0, 1} ]_vars

\* the last scan made a (failed) email attempt for a task that had been done
\* and was toggled back
C3_Witness ==
    /\ pc = "page"
    /\ \E i \in 1..Len(tasks) :
         /\ tasks[i].id \in everDone
         /\ ~tasks[i].done
         /\ FailureOf(notifs, tasks[i].id) # {}

(* C4: when send_email fails for a not-done, not-notified task within the   *)
(* horizon, the scan sets its notified flag, appends the approaching-       *)
(* deadline message immediately followed by the delivery-failure message    *)
(* carrying the error text, and evaluates every remaining task; the scan    *)
(* completes.                                                               *)
C4_FailureDoesNotAbort ==
    [][ ScanStep =>
          \A i \in 1..Len(tasks) :
            LET t == tasks[i] IN
            (~t.done /\ ~t.notified /\ Delta(t) <= 2) =>
              /\ CallsMade(t.id) = 1
              /\ LET msg == calls'[t.id][Len(calls'[t.id])] IN
                 msg # "Email sent." =>
                   /\ msg \in {"Email not configured.", "Email error"}
                   /\ tasks'[i].notified
                   /\ \E j \in 1..(Len(notifs') - 1) :
                        /\ notifs'[j].kind = "deadline" /\ notifs'[j].task = t.id
                        /\ notifs'[j + 1].kind = "email_failed"
                        /\ notifs'[j + 1].msg = msg
                        /\ FailureOf(notifs', t.id) = {j + 1}
                   /\ Len(tasks') = Len(tasks)
                   /\ \A k \in (i + 1)..Len(tasks) :
                        /\ tasks'[k].notified <=>
                             (tasks[k].notified \/ (~tasks[k].done /\ Delta(tasks[k]) <= 2))
                        /\ (ApproachOf(notifs', tasks[k].id) # {}) <=>
                             (~tasks[k].done /\ Delta(tasks[k]) <= 2)
                        /\ \A a \in ApproachOf(notifs', t.id),
                              b \in ApproachOf(notifs', tasks[k].id) : a < b ]_vars

\* a scan whose first task's email failed at the server went on to report
\* and notify the task after it
C4_Witness ==
    /\ pc = "page"
    /\ Len(tasks) = 2
    /\ Len(notifs) >= 3
    /\ notifs[1].kind = "deadline" /\ notifs[1].task = tasks[1].id
    /\ notifs[2].kind = "email_failed" /\ notifs[2].msg = "Email error"
    /\ notifs[3].kind = "deadline" /\ notifs[3].task = tasks[2].id
    /\ tasks[1].notified /\ tasks[2].notified

(* C5: a scan emits no message and makes no email attempt for a task whose  *)
(* deadline is more than 2 days after today, and leaves the task unchanged. *)
C5_OutsideHorizonUntouched ==
    [][ ScanStep =>
          /\ Len(tasks') = Len(tasks)
          /\ \A i \in 1..Len(tasks) : Delta(tasks[i]) > 2 =>
               /\ tasks'[i] = tasks[i]
               /\ MessagesOf(notifs', tasks[i].id) = {}
               /\ CallsMade(tasks[i].id) = 0 ]_vars

\* the last scan reported another task and left one 3 days away alone
C5_Witness ==
    /\ pc = "page"
    /\ notifs # <<>>
    /\ \E i \in 1..Len(tasks) :
         /\ Delta(tasks[i]) = 3
         /\ ~tasks[i].done /\ ~tasks[i].notified
         /\ calls[tasks[i].id] = <<>>

(* C6: a scan emits no message and makes no email attempt for a task whose  *)
(* done flag is true, whatever its deadline and notified flag, and leaves   *)
(* the task unchanged.                                                      *)
C6_DoneSkipped ==
    [][ ScanStep =>
          /\ Len(tasks') = Len(tasks)
          /\ \A i \in 1..Len(tasks) : tasks[i].done =>
               /\ tasks'[i] = tasks[i]
               /\ MessagesOf(notifs', tasks[i].id) = {}
               /\ CallsMade(tasks[i].id) = 0 ]_vars

\* the scan of the second day reported an overdue task and skipped a done,
\* never-notified one that had just come within the horizon
C6_Witness ==
    /\ pc = "page"
    /\ \E i, k \in 1..Len(tasks) :
         /\ tasks[i].done /\ ~tasks[i].notified
         /\ Delta(tasks[i]) = 2
         /\ MessagesOf(notifs, tasks[i].id) = {}
         /\ calls[tasks[i].id] = <<>>
         /\ \E j \in ApproachOf(notifs, tasks[k].id) : notifs[j].delta = -1

C7_ParseTotal ==
    /\ parsed # <<>> =>
         /\ parsed = parse_start_time(time_str)
         /\ \/ parsed = Sentinel
            \/ parsed[1] \in 0..23 /\ parsed[2] \in 0..59
         /\ parsed # Sentinel => KeyLess(parsed, Sentinel)
    /\ \A i, j \in 1..Len(sorted_times) :
         (i < j /\ parse_start_time(sorted_times[i]) = Sentinel)
            => parse_start_time(sorted_times[j]) = Sentinel

\* digits that form no valid time (hour 26) parsed to the time embedded in
\* them, and the table put the placeholder after it
C7_Witness ==
    /\ time_str = <<"2", "6", ":", "1", "1">>
    /\ parsed = <<6, 11>>
    /\ sorted_times = <<time_str, <<"x">> >>

(* C8: in the Calendar projection of a (year, month) the event list of     *)
(* every date d of the month is one class event per entry of the bucket of  *)
(* d's weekday, in stored order, followed by one task event                 *)
(* "Deadline: {title}" per task whose deadline is d, in task-list order,    *)
(* whatever the task's done and notified flags; padding cells (day 0) get   *)
(* no events.                                                               *)
C8_CalendarProjection ==
    cal # NoCalendar =>
      \A y \in {cal.year}, m \in {cal.month} :
      \A n \in {DaysInMonth(y, m)}, first \in {Date(y, m, 1)} :
      \A cells \in {Cells(y, m, cal.grid, cal.events)} :
         /\ DOMAIN cal.events = {first + (d - 1) : d \in 1..n}
         /\ first + (n - 1) = Date(y, m, n)
         /\ \A d \in 1..n :
              LET dt     == first + (d - 1)
                  \* 2001-01-01 was a Monday
                  bucket == schedule[Weekdays[((dt - Date(2001, 1, 1)) % 7) + 1]]
                  due    == SelectSeq(tasks, LAMBDA t : t.deadline = dt)
                  ev     == cal.events[dt]
              IN /\ Len(ev) = Len(bucket) + Len(due)
                 /\ \A k \in 1..Len(bucket) :
                      ev[k] = [kind |-> "class",
                               text |-> bucket[k].time \o " " \o bucket[k].course
                                        \o " (" \o bucket[k].room \o ")"]
                 /\ \A k \in 1..Len(due) :
                      ev[Len(bucket) + k] =
                          [kind |-> "task", text |-> "Deadline: " \o due[k].title]
         /\ \A w \in DOMAIN cal.grid :
              /\ Len(cal.grid[w]) = 7
              /\ \A k \in 1..7 :
                   IF cal.grid[w][k] = 0 THEN cells[w][k] = <<>>
                   ELSE /\ cal.grid[w][k] \in 1..n
                        /\ cells[w][k] = cal.events[first + (cal.grid[w][k] - 1)]
         /\ SelectSeq([i \in 1..(7 * Len(cal.grid)) |->
                          cal.grid[((i - 1) \div 7) + 1][((i - 1) % 7) + 1]],
                      LAMBDA c : c # 0)
              = [d \in 1..n |-> d]

\* February 2024: Friday the 2nd shows the two classes of the Friday bucket
\* in stored order and then the deadline of a done task that is due that day
C8_Witness ==
    /\ cal # NoCalendar
    /\ cal.year = 2024 /\ cal.month = 2
    /\ Len(cal.grid) = 5 /\ cal.grid[1][3] = 0 /\ cal.grid[1][4] = 1 /\ cal.grid[5][4] = 29
    /\ cal.events[Date(2024, 2, 2)] =
         << [kind |-> "class", text |-> "07:50-09:30 Math (C212)"],
            [kind |-> "class", text |-> "-- Art (--)"],
            [kind |-> "task", text |-> "Deadline: essay"] >>
    /\ cal.events[Date(2024, 2, 1)] = <<>>
    /\ Len(tasks) = 1 /\ tasks[1].done

=============================================================================
